---- MODULE Spec2Model ----
(***************************************************************************)
(* Model of build_crowtalk.py: the sonogram pipeline make_sono (lines      *)
(* 19-65) and the batch loop that calls it once per audio file (lines      *)
(* 103-128), up to the point where the output page is written.            *)
(*                                                                         *)
(* Library calls are modelled by what the library does on the arguments   *)
(* the script passes: soundfile.read, scipy.io.wavfile.read,              *)
(* scipy.signal.spectrogram (segment policy, frequency grid, constant     *)
(* detrend), numpy (mean, max, iinfo, percentile) and matplotlib          *)
(* (Normalize, savefig).  The STFT power values of a non-constant signal  *)
(* are kept symbolic: a matrix is identified by the arguments it was      *)
(* computed from.                                                          *)
(***************************************************************************)
EXTENDS Integers, Sequences, FiniteSets, TLC

VARIABLES
  dir,         \* sorted(os.listdir(AUDIO_DIR)): sequence of file descriptors
  idx,         \* position of the batch loop in dir (0 before the first file)
  pc,          \* position of the script
  raw,         \* local `raw` of make_sono
  sr,          \* local `sr` of make_sono
  data,        \* local `data` of make_sono
  sg,          \* locals f, t, Sxx, mask, Sxx_db, vmin, vmax of make_sono
  fig,         \* local `fig` of make_sono
  sono,        \* value make_sono returned to the loop
  recordings,  \* the list `recordings`
  openFigs,    \* figures registered with pyplot and not yet closed
  printed,     \* lines printed so far
  trace,       \* history: stages entered by the current make_sono call
  calls,       \* history: finished make_sono calls (file, trace, outcome)
  cmap,        \* module global _CROW_CMAP
  par          \* make_sono run by parallel workers: their locals, pyplot's figures

vars == <<dir, idx, pc, raw, sr, data, sg, fig, sono, recordings,
          openFigs, printed, trace, calls, cmap, par>>

----------------------------------------------------------------------------
(* Bounds of the model *)

MaxFiles == 2
MaxN == 16

(* Constants of the program *)

RateCeiling == 22050
FreqCeiling == 8000
NFFT == 1024
MaxNperseg == 512
MAX_SIZE == 6 * 1024 * 1024
Int16Max == 32767
Int16Scale == 32768
DbFloor == -100
PowerFloor == 100
CanvasW == 440
CanvasH == 104

CrowStops == <<"#07090a", "#0d2535", "#1a4a5a", "#2dd4bf", "#3ecf72", "#f0a832">>

None == [kind |-> "None"]

----------------------------------------------------------------------------
(* Generic helpers *)

Min(a, b) == IF a <= b THEN a ELSE b

SeqMax(s) == CHOOSE m \in {s[i] : i \in 1..Len(s)} : \A i \in 1..Len(s) : s[i] <= m

----------------------------------------------------------------------------
(* Audio files.  A file holds n frames of nch channels at rate sr, stored  *)
(* as dtype.  Sample values are in 16-bit PCM units; a float file stores   *)
(* the value divided by 32768.  sf / wav / render say how the two readers  *)
(* and the figure backend behave on this file.                             *)

Rates == {16000, 22050, 44100, 48000, 96000}

Pcm(pat, i, c) ==
  CASE pat = "silent"    -> 0
    [] pat = "tone"      -> IF i % 2 = 1 THEN Int16Max ELSE -Int16Max
    [] pat = "antiphase" -> IF (i + c) % 2 = 1 THEN Int16Max ELSE -Int16Max
    [] pat = "dc"        -> Int16Max
    [] pat = "negfull"   -> -Int16Scale
    [] pat = "clipped"   -> IF i % 2 = 1 THEN Int16Max ELSE -Int16Scale
    [] pat = "ramp"      -> i

File(ext, size, sf, wav, render, rate, nch, dtype, n, pat) ==
  [ext |-> ext, size |-> size, sf |-> sf, wav |-> wav, render |-> render,
   sr |-> rate, nch |-> nch, dtype |-> dtype, n |-> n, pat |-> pat]

Eligible(f) == (f.ext = "wav" \/ f.ext = "mp3") /\ ~(f.size > MAX_SIZE)

(* Files of a whole batch: a coarse set, so that several files fit. *)
BatchFiles ==
  { File("wav", 1000, sf, wav, render, c[1], 1, "int16", c[2], c[3]) :
      sf \in {"ok", "read_raises", "mean_raises"}, wav \in {"ok", "raises"},
      render \in {"ok", "save_raises"},
      c \in {<<22050, MaxN, "tone">>, <<48000, 7, "tone">>, <<22050, MaxN, "silent">>} }
  \cup { File("txt", 1000, "ok", "ok", "ok", 22050, 1, "int16", MaxN, "tone"),
         File("mp3", MAX_SIZE + 1, "ok", "raises", "ok", 22050, 1, "int16", MaxN, "tone") }

(* Files long enough for the cap of 512 on the window length. *)
LongFiles ==
  { File("wav", MAX_SIZE, "ok", "ok", "ok", rate, 1, "int16", n, pat) :
      rate \in {22050, 48000}, n \in {4095, 4104}, pat \in {"silent", "ramp"} }

(* Files of a one-file build: every rate, length, layout and content. *)
UnitFiles ==
  { File("wav", MAX_SIZE, sf, wav, render, rate, nch, dtype, n, pat) :
      sf \in {"ok", "read_raises", "mean_raises"}, wav \in {"ok", "raises"},
      render \in {"ok", "draw_raises", "save_raises"},
      rate \in Rates, nch \in {1, 2}, dtype \in {"int16", "float32"},
      n \in 0..MaxN, pat \in {"silent", "tone", "antiphase", "clipped", "negfull", "ramp"} }
  \cup LongFiles
  \cup { File("mp3", 1000, "ok", "raises", "ok", rate, 1, "int16", MaxN, "tone") : rate \in Rates }
  \cup { File("txt", 1000, "ok", "ok", "ok", 22050, 1, "int16", MaxN, "tone"),
         File("wav", MAX_SIZE + 1, "ok", "ok", "ok", 22050, 1, "int16", MaxN, "tone") }

----------------------------------------------------------------------------
(* Decoder, first strategy (lines 22-24).  sf.read(path, always_2d=True)   *)
(* returns float64 frames (PCM value / 32768) and the rate of the file.    *)

\* a sample buffer: values num[i] / den, read by strategy `by`
Buffer(by, dtype, num, den) == [kind |-> "array", by |-> by, dtype |-> dtype, num |-> num, den |-> den]

Frames(by, dtype, f) == [kind |-> "frames", by |-> by, dtype |-> dtype, nch |-> f.nch, n |-> f.n, pat |-> f.pat]

Rate(by, v) == [kind |-> "int", by |-> by, val |-> v]

SfReadRaw(f) == Frames("sf", "float64", f)

SfReadSr(f) == Rate("sf", f.sr)

\* raw.mean(axis=1): the sum of the channels over their number
ChannelMean(r) ==
  [i \in 1..r.n |-> LET S[c \in 0..r.nch] == IF c = 0 THEN 0 ELSE S[c - 1] + Pcm(r.pat, i, c)
                    IN  S[r.nch]]

SfMean(r) == Buffer(r.by, "float32", ChannelMean(r), Int16Scale * r.nch)

(* Decoder, fallback (lines 27-33).  wavfile.read returns the rate and     *)
(* the samples in the dtype of the file: a 1-D array for a mono file.      *)

WavReadRaw(f) == Frames("wav", f.dtype, f)

\* the fallback's rate is dropped when `sr` is already bound
WavReadSrStale(f) == IF sr = None THEN Rate("wav", f.sr) ELSE sr

WavReadSr(f) == Rate("wav", f.sr)

\* lines 29-30: raw after the optional mono reduction, a float64 array then
WavMono(r) ==
  LET den == IF r.dtype = "int16" THEN 1 ELSE Int16Scale
  IN  IF r.nch > 1
        THEN Buffer(r.by, "float64", ChannelMean(r), den * r.nch)
        ELSE Buffer(r.by, r.dtype, [i \in 1..r.n |-> Pcm(r.pat, i, 1)], den)

IsIntegerType(dtype) == dtype = "int16"

\* line 32: data.max() of an empty array raises ValueError;
\* line 33: np.iinfo of a float dtype raises ValueError
WavNormRaises(m) ==
  \/ Len(m.num) = 0
  \/ SeqMax(m.num) > m.den /\ ~IsIntegerType(m.dtype)

\* lines 31-33: astype(float32), divided by iinfo(raw.dtype).max when max > 1.0
WavNorm(m) ==
  IF SeqMax(m.num) > m.den
    THEN Buffer(m.by, "float32", m.num, m.den * Int16Max)
    ELSE Buffer(m.by, "float32", m.num, m.den)

----------------------------------------------------------------------------
(* Resampler (lines 39-42) *)

NeedsResample(rate) == rate > RateCeiling

ResampleStep(rate) == rate \div RateCeiling

\* a trailing incomplete group of step samples is dropped
DecimateTruncated(num, step) ==
  [j \in 1..(Len(num) \div step) |-> num[(j - 1) * step + 1]]

\* data[step::step]: the first kept sample is the one at index step
DecimateFromStep(num, step) ==
  [j \in 1..(Len(num) \div step) |-> num[j * step]]

\* data[::step]: the samples at (0-based) indices 0, step, 2*step, ...
Decimate(num, step) ==
  [j \in 1..((Len(num) + step - 1) \div step) |-> num[(j - 1) * step + 1]]

\* the rate is set to the ceiling itself
ResampleRateCeiling(rate, step) == RateCeiling

ResampleRate(rate, step) == rate \div step

----------------------------------------------------------------------------
(* SpectrogramComputer (lines 44-45): scipy.signal.spectrogram with the    *)
(* default window and detrend='constant'.                                  *)

\* a quarter of the samples instead of an eighth
NpersegQuarter(n) == Min(MaxNperseg, n \div 4)

\* a sixteenth of the samples instead of an eighth
NpersegSixteenth(n) == Min(MaxNperseg, n \div 16)

Nperseg(n) == Min(MaxNperseg, n \div 8)

\* half of the window instead of three quarters
NoverlapHalf(nperseg) == nperseg \div 2

Noverlap(nperseg) == (nperseg * 3) \div 4

\* scipy: 'nperseg must be a positive integer' (ValueError)
SgRaises(nperseg) == nperseg < 1

\* number of complete windows scipy cuts from n samples
NumSegments(n, nperseg, noverlap) == (n - noverlap) \div (nperseg - noverlap)

\* indices of the one-sided spectrum: f[k] = k * fs / nfft
FreqBins == 0..(NFFT \div 2)

\* every window is constant, so constant detrending leaves zeros and all power is 0
ZeroPower(num, nperseg, noverlap) ==
  \A j \in 0..(NumSegments(Len(num), nperseg, noverlap) - 1) :
    \A i \in 1..nperseg :
      num[j * (nperseg - noverlap) + i] = num[j * (nperseg - noverlap) + 1]

Spectrogram(d, rate, nperseg, noverlap) ==
  [kind |-> "Sxx", fs |-> rate, bins |-> FreqBins,
   cols |-> NumSegments(Len(d.num), nperseg, noverlap),
   zero |-> ZeroPower(d.num, nperseg, noverlap),
   of |-> <<d.num, d.den, rate, nperseg, noverlap, NFFT>>]

----------------------------------------------------------------------------
(* DynamicRangeNormalizer (lines 46-48) *)

\* strict comparison: the row at exactly 8000 Hz is lost
MaskStrict(bins, rate) == {k \in bins : k * rate < FreqCeiling * NFFT}

\* mask = f <= 8000, with f[k] = k * fs / nfft
Mask(bins, rate) == {k \in bins : k * rate <= FreqCeiling * NFFT}

\* Power is counted in units of 1e-12 and log10 is taken to whole decades:
\* Log10Floor(m) = floor(log10(m)) for m >= 1
RECURSIVE Log10Floor(_)
Log10Floor(m) == IF m < 10 THEN 0 ELSE 1 + Log10Floor(m \div 10)

\* the floor of 1e-10 is not applied before the logarithm
PowerToDbNoFloor(p) == 10 * Log10Floor(p) - 120

\* cells at or below the floor are set to 0 dB instead of the floor's dB
PowerToDbZeroed(p) ==
  IF p <= PowerFloor THEN 0 ELSE 10 * Log10Floor(p) - 120

\* line 47: 10 * np.log10(np.maximum(p, 1e-10)), for p in units of 1e-12
PowerToDb(p) ==
  10 * Log10Floor(IF p >= PowerFloor THEN p ELSE PowerFloor) - 120

\* np.percentile of the dB matrix: every cell of a zero matrix is
\* 10 * log10(1e-10) = -100; otherwise the percentile stays symbolic
Percentile(S, q) ==
  IF S.zero THEN [kind |-> "dB", val |-> DbFloor, q |-> 0]
            ELSE [kind |-> "percentile", val |-> 0, q |-> q]

Normalized(S) ==
  [kind |-> "Sxx_db", fs |-> S.fs, rows |-> Mask(S.bins, S.fs), cols |-> S.cols,
   zero |-> S.zero, of |-> S.of,
   vmin |-> Percentile(S, 5), vmax |-> Percentile(S, 99)]

----------------------------------------------------------------------------
(* ColorMapper, Rasterizer and Encoder (lines 50-65) *)

\* matplotlib Normalize: equal bounds fill the result with 0, no division
NormalizeMode(vmin, vmax) == IF vmin = vmax THEN "fill0" ELSE "linear"

\* coinciding bounds are pulled apart before they are handed to pcolormesh
FigureClamped(id, S, table) ==
  LET hi == IF S.vmin = S.vmax THEN [S.vmax EXCEPT !.val = @ + 1] ELSE S.vmax
  IN  [kind |-> "figure", id |-> id, width |-> CanvasW, height |-> CanvasH,
       face |-> table[1], rows |-> S.rows, cols |-> S.cols, of |-> S.of,
       vmin |-> S.vmin, vmax |-> hi, norm |-> NormalizeMode(S.vmin, hi),
       table |-> table]

Figure(id, S, table) ==
  [kind |-> "figure", id |-> id, width |-> CanvasW, height |-> CanvasH,
   face |-> table[1], rows |-> S.rows, cols |-> S.cols, of |-> S.of,
   vmin |-> S.vmin, vmax |-> S.vmax, norm |-> NormalizeMode(S.vmin, S.vmax),
   table |-> table]

\* the PNG carries a creation stamp (here: the number of earlier calls)
SaveFigStamped(g) ==
  [kind |-> "b64", width |-> g.width, height |-> g.height, face |-> g.face,
   rows |-> g.rows, cols |-> g.cols, of |-> g.of, vmin |-> g.vmin, vmax |-> g.vmax,
   norm |-> g.norm, table |-> g.table, stamp |-> Len(calls)]

\* fig.savefig(format='png') then base64: the bytes depend on the figure only
SaveFig(g) ==
  [kind |-> "b64", width |-> g.width, height |-> g.height, face |-> g.face,
   rows |-> g.rows, cols |-> g.cols, of |-> g.of, vmin |-> g.vmin, vmax |-> g.vmax,
   norm |-> g.norm, table |-> g.table]

Raised(stage) == [kind |-> "raise", at |-> stage]

----------------------------------------------------------------------------
(* Initial states: the script has run up to line 103. *)

\* no parallel workers: the script itself runs the loop
NoWorkers == [w |-> <<>>, figs |-> <<>>]

InitRest ==
  /\ idx = 0
  /\ pc = "loop"
  /\ raw = None /\ sr = None /\ data = None /\ sg = None /\ fig = None
  /\ sono = None
  /\ recordings = <<>>
  /\ openFigs = 0
  /\ printed = <<>>
  /\ trace = <<>>
  /\ calls = <<>>
  /\ cmap = CrowStops
  /\ par = NoWorkers

Init ==
  /\ dir \in UNION {[1..n -> BatchFiles] : n \in 1..MaxFiles}
  /\ InitRest

InitUnit ==
  /\ dir \in {<<f>> : f \in UnitFiles}
  /\ InitRest

Cur == dir[idx]

locals == <<raw, sr, data, sg, fig>>
batch == <<dir, recordings, cmap, par>>

\* one entry of the stage history
Ran(stage) == [stage |-> stage, ok |-> TRUE]
Threw(stage) == [stage |-> stage, ok |-> FALSE]

Finished(t, v) == [file |-> Cur, trace |-> t, outcome |-> v, data |-> data, sr |-> sr]

\* an exception leaves make_sono: nothing in the loop catches it, the script ends
Propagate(stage) ==
  /\ pc' = "aborted"
  /\ trace' = Append(trace, Threw(stage))
  /\ calls' = Append(calls, Finished(trace', Raised(stage)))

\* make_sono returns v to line 120
Return(t, v) ==
  /\ pc' = "append"
  /\ sono' = v
  /\ trace' = t
  /\ calls' = Append(calls, Finished(t, v))

\* the warning reports the first strategy's error
SkipLineFirstError(stage) == "sono skip (soundfile)"

\* line 35: the warning carries the exception the fallback raised
SkipLine(stage) ==
  IF stage = "wav_read" THEN "sono skip (wav_read)" ELSE "sono skip (wav_norm)"

\* the handler does not catch the fallback's exception
DecodeFailedUncaught(stage) ==
  /\ Propagate(stage)
  /\ UNCHANGED <<sono, printed>>

\* lines 34-36: the fallback raised, the warning is printed, None is returned
DecodeFailed(stage) ==
  /\ Return(Append(trace, Threw(stage)), None)
  /\ printed' = Append(printed, SkipLine(stage))

Goto(entry, next) ==
  /\ pc' = next
  /\ trace' = Append(trace, entry)
  /\ UNCHANGED calls

\* the fallback runs whether or not the first strategy raised
AfterSoundfileAlways(raised) == "wav_read"

\* lines 21-26: the except clause runs the fallback only when the try block raised
AfterSoundfile(raised) == IF raised THEN "wav_read" ELSE "resample"

----------------------------------------------------------------------------
(* The batch loop (lines 104-126) *)

\* lines 105-106: not an audio file name
SkipExt ==
  /\ pc = "loop" /\ idx < Len(dir)
  /\ ~(dir[idx + 1].ext = "wav" \/ dir[idx + 1].ext = "mp3")
  /\ idx' = idx + 1
  /\ UNCHANGED <<pc, locals, sono, batch, openFigs, printed, trace, calls>>

\* lines 109-111: too large
SkipSize ==
  /\ pc = "loop" /\ idx < Len(dir)
  /\ (dir[idx + 1].ext = "wav" \/ dir[idx + 1].ext = "mp3")
  /\ dir[idx + 1].size > MAX_SIZE
  /\ idx' = idx + 1
  /\ printed' = Append(printed, "skip")
  /\ UNCHANGED <<pc, locals, sono, batch, openFigs, trace, calls>>

\* lines 112-120: the audio is read and make_sono(path) is entered
Call ==
  /\ pc = "loop" /\ idx < Len(dir)
  /\ Eligible(dir[idx + 1])
  /\ idx' = idx + 1
  /\ pc' = "sf_read"
  /\ raw' = None /\ sr' = None /\ data' = None /\ sg' = None /\ fig' = None
  /\ trace' = <<>>
  /\ UNCHANGED <<sono, batch, openFigs, printed, calls>>

\* a file without a sonogram is left out of the list
AppendRecordingOnlySono ==
  /\ pc = "append"
  /\ recordings' = IF sono = None THEN recordings
                    ELSE Append(recordings, [file |-> idx, audio |-> Cur, sono |-> sono])
  /\ printed' = Append(printed, IF sono = None THEN "ok (no sono)" ELSE "ok +sono")
  /\ pc' = "loop"
  /\ UNCHANGED <<dir, idx, locals, sono, cmap, par, openFigs, trace, calls>>

\* lines 121-126
AppendRecording ==
  /\ pc = "append"
  /\ recordings' = Append(recordings, [file |-> idx, audio |-> Cur, sono |-> sono])
  /\ printed' = Append(printed, IF sono = None THEN "ok (no sono)" ELSE "ok +sono")
  /\ pc' = "loop"
  /\ UNCHANGED <<dir, idx, locals, sono, cmap, par, openFigs, trace, calls>>

\* line 128: the loop is over
EndLoop ==
  /\ pc = "loop" /\ idx = Len(dir)
  /\ pc' = "write"
  /\ printed' = Append(printed, "count")
  /\ UNCHANGED <<idx, locals, sono, batch, openFigs, trace, calls>>

\* lines 130-2886: the page is built from recordings and written
WritePage ==
  /\ pc = "write"
  /\ pc' = "done"
  /\ printed' = Append(printed, "done")
  /\ UNCHANGED <<idx, locals, sono, batch, openFigs, trace, calls>>

----------------------------------------------------------------------------
(* make_sono (lines 19-65) *)

\* lines 22-23
SfRead ==
  /\ pc = "sf_read"
  /\ IF Cur.sf = "read_raises"
       THEN /\ Goto(Threw("sf_read"), AfterSoundfile(TRUE))
            /\ UNCHANGED <<raw, sr>>
       ELSE /\ Goto(Ran("sf_read"), "sf_mean")
            /\ raw' = SfReadRaw(Cur)
            /\ sr' = SfReadSr(Cur)
  /\ UNCHANGED <<idx, data, sg, fig, sono, batch, openFigs, printed>>

\* line 24
SfMeanStep ==
  /\ pc = "sf_mean"
  /\ IF Cur.sf = "mean_raises"
       THEN /\ Goto(Threw("sf_mean"), AfterSoundfile(TRUE))
            /\ UNCHANGED data
       ELSE /\ Goto(Ran("sf_mean"), AfterSoundfile(FALSE))
            /\ data' = SfMean(raw)
  /\ UNCHANGED <<idx, raw, sr, sg, fig, sono, batch, openFigs, printed>>

\* lines 27-28, and 34-36 when the read raises
WavRead ==
  /\ pc = "wav_read"
  /\ IF Cur.wav = "raises"
       THEN /\ DecodeFailed("wav_read")
            /\ UNCHANGED <<raw, sr>>
       ELSE /\ Goto(Ran("wav_read"), "wav_norm")
            /\ raw' = WavReadRaw(Cur)
            /\ sr' = WavReadSr(Cur)
            /\ UNCHANGED <<sono, printed>>
  /\ UNCHANGED <<idx, data, sg, fig, batch, openFigs>>

\* lines 29-33, and 34-36 when they raise
WavNormStep ==
  /\ pc = "wav_norm"
  /\ IF WavNormRaises(WavMono(raw))
       THEN /\ DecodeFailed("wav_norm")
            /\ UNCHANGED <<raw, data>>
       ELSE /\ Goto(Ran("wav_norm"), "resample")
            /\ raw' = WavMono(raw)
            /\ data' = WavNorm(WavMono(raw))
            /\ UNCHANGED <<sono, printed>>
  /\ UNCHANGED <<idx, sr, sg, fig, batch, openFigs>>

\* the ceiling is taken as 11025 Hz
ResampleHalfCeiling ==
  /\ pc = "resample"
  /\ Goto(Ran("resample"), "stft")
  /\ IF sr.val > 11025
       THEN /\ data' = [data EXCEPT !.num = Decimate(data.num, sr.val \div 11025)]
            /\ sr' = [sr EXCEPT !.val = sr.val \div (sr.val \div 11025)]
       ELSE UNCHANGED <<data, sr>>
  /\ UNCHANGED <<idx, raw, sg, fig, sono, batch, openFigs, printed>>

\* lines 39-42
Resample ==
  /\ pc = "resample"
  /\ Goto(Ran("resample"), "stft")
  /\ IF NeedsResample(sr.val)
       THEN /\ data' = [data EXCEPT !.num = Decimate(data.num, ResampleStep(sr.val))]
            /\ sr' = [sr EXCEPT !.val = ResampleRate(sr.val, ResampleStep(sr.val))]
       ELSE UNCHANGED <<data, sr>>
  /\ UNCHANGED <<idx, raw, sg, fig, sono, batch, openFigs, printed>>

\* lines 44-45
Stft ==
  /\ pc = "stft"
  /\ LET nperseg == Nperseg(Len(data.num)) IN
       IF SgRaises(nperseg)
         THEN /\ Propagate("stft")
              /\ UNCHANGED sg
         ELSE /\ Goto(Ran("stft"), "normalize")
              /\ sg' = Spectrogram(data, sr.val, nperseg, Noverlap(nperseg))
  /\ UNCHANGED <<idx, raw, sr, data, fig, sono, batch, openFigs, printed>>

\* lines 46-48
Normalize ==
  /\ pc = "normalize"
  /\ Goto(Ran("normalize"), "render")
  /\ sg' = Normalized(sg)
  /\ UNCHANGED <<idx, raw, sr, data, fig, sono, batch, openFigs, printed>>

\* lines 50-60: the figure is registered with pyplot, then drawn
Render ==
  /\ pc = "render"
  /\ openFigs' = openFigs + 1
  /\ fig' = Figure(openFigs + 1, sg, cmap)
  /\ IF Cur.render = "draw_raises"
       THEN Propagate("render")
       ELSE Goto(Ran("render"), "save")
  /\ UNCHANGED <<idx, raw, sr, data, sg, sono, batch, printed>>

\* lines 62-65: savefig, close, base64
Save ==
  /\ pc = "save"
  /\ IF Cur.render = "save_raises"
       THEN /\ Propagate("save")
            /\ UNCHANGED <<sono, openFigs>>
       ELSE /\ Return(Append(trace, Ran("save")), SaveFig(fig))
            /\ openFigs' = openFigs - 1
  /\ UNCHANGED <<idx, locals, batch, printed>>

----------------------------------------------------------------------------

Next ==
  \/ SkipExt \/ SkipSize \/ Call \/ AppendRecording \/ EndLoop \/ WritePage
  \/ SfRead \/ SfMeanStep \/ WavRead \/ WavNormStep
  \/ Resample \/ Stft \/ Normalize \/ Render \/ Save

Spec == Init /\ [][Next]_vars

SpecUnit == InitUnit /\ [][Next]_vars

----------------------------------------------------------------------------
(* The element-wise dB conversion of line 47 on its own, applied to a pair  *)
(* of power values (in units of 1e-12) of one bin.                          *)

Powers == {0, 1, 50, 99, 100, 101, 999, 1000, 1001, 5000, 99999, 100000, 1000000}

InitDb ==
  /\ dir = <<>>
  /\ idx = 0
  /\ pc = "log10"
  /\ sg \in {[kind |-> "power", cells |-> <<p, q>>] : p \in Powers, q \in Powers}
  /\ raw = None /\ sr = None /\ data = None /\ fig = None
  /\ sono = None
  /\ recordings = <<>>
  /\ openFigs = 0
  /\ printed = <<>>
  /\ trace = <<>>
  /\ calls = <<>>
  /\ cmap = CrowStops
  /\ par = NoWorkers

ToDb ==
  /\ pc = "log10"
  /\ pc' = "log10_done"
  /\ sg' = [kind |-> "dB", power |-> sg.cells,
            cells |-> <<PowerToDb(sg.cells[1]), PowerToDb(sg.cells[2])>>]
  /\ UNCHANGED <<idx, raw, sr, data, fig, sono, batch, openFigs, printed, trace, calls>>

SpecDb == InitDb /\ [][ToDb]_vars

----------------------------------------------------------------------------
(* make_sono run by parallel workers, one file each (lines 19-65 per        *)
(* worker).  Each worker has its own locals; the workers share the module   *)
(* global _CROW_CMAP and pyplot's registry of open figures, whose last      *)
(* entry is pyplot's current figure.  Workers interleave between stages.    *)

MaxWorkers == 2

ParFiles ==
  { File("wav", 1000, "ok", "ok", "ok", 22050, 1, "int16", MaxN, "tone"),
    File("wav", 1000, "ok", "ok", "ok", 48000, 1, "int16", 7, "tone"),
    File("wav", 1000, "read_raises", "ok", "ok", 48000, 1, "int16", MaxN, "ramp"),
    File("mp3", 1000, "read_raises", "raises", "ok", 22050, 1, "int16", MaxN, "tone"),
    File("wav", 1000, "ok", "ok", "save_raises", 22050, 1, "int16", MaxN, "ramp") }

Worker(f) ==
  [file |-> f, pc |-> "sf_read", raw |-> None, sr |-> None, data |-> None,
   sg |-> None, num |-> 0, fig |-> None, trace |-> <<>>, out |-> None]

InitPar ==
  /\ dir = <<>>
  /\ idx = 0
  /\ pc = "workers"
  /\ raw = None /\ sr = None /\ data = None /\ sg = None /\ fig = None
  /\ sono = None
  /\ recordings = <<>>
  /\ openFigs = 0
  /\ printed = <<>>
  /\ trace = <<>>
  /\ calls = <<>>
  /\ cmap = CrowStops
  /\ par \in {[w |-> [k \in 1..MaxWorkers |-> Worker(fs[k])], figs |-> <<>>] :
                fs \in [1..MaxWorkers -> ParFiles]}

sequential == <<dir, idx, pc, raw, sr, data, sg, fig, sono, recordings,
                openFigs, printed, trace, calls, cmap>>

\* worker k goes on with locals wk; the figure registry becomes figs
WorkerDoes(k, wk, figs) ==
  /\ par' = [w |-> [par.w EXCEPT ![k] = wk], figs |-> figs]
  /\ UNCHANGED sequential

WRan(w, stage, next) == [w EXCEPT !.pc = next, !.trace = Append(@, Ran(stage))]

\* lines 34-36: the worker's call returns None
WDecodeFailed(w, stage) ==
  [w EXCEPT !.pc = "returned", !.trace = Append(@, Threw(stage)), !.out = None]

\* an exception leaves the worker's call
WRaised(w, stage) ==
  [w EXCEPT !.pc = "raised", !.trace = Append(@, Threw(stage)), !.out = Raised(stage)]

\* plt.figure(): one more than the largest number in the registry
NewFigNum(figs) ==
  IF figs = <<>> THEN 1
  ELSE 1 + (CHOOSE m \in {figs[i].num : i \in 1..Len(figs)} :
              \A i \in 1..Len(figs) : figs[i].num <= m)

\* the registry is keyed by number: an entry under the same number is replaced
Register(figs, n, k) ==
  Append(SelectSeq(figs, LAMBDA g : g.num /= n), [num |-> n, owner |-> k])

\* line 50: a new figure of the canvas size, nothing drawn yet
BlankFigure(id, table) ==
  [kind |-> "figure", id |-> id, width |-> CanvasW, height |-> CanvasH,
   face |-> table[1], rows |-> 0, cols |-> 0, of |-> <<>>,
   vmin |-> None, vmax |-> None, norm |-> "none", table |-> table]

\* plt.close(fig): the registry entry holding this worker's figure goes
CloseFig(figs, k) == SelectSeq(figs, LAMBDA g : g.owner /= k)

\* plt.savefig: pyplot's current figure, the registry's last entry, is saved
FigureToSaveCurrent(k) ==
  IF par.figs = <<>> THEN BlankFigure(1, cmap)
  ELSE par.w[par.figs[Len(par.figs)].owner].fig

\* line 63: fig.savefig saves the figure held by the call's own local
FigureToSave(k) == par.w[k].fig

\* lines 22-23
WSfRead(k) ==
  LET w == par.w[k] IN
  /\ w.pc = "sf_read"
  /\ IF w.file.sf = "read_raises"
       THEN WorkerDoes(k, [w EXCEPT !.pc = AfterSoundfile(TRUE),
                                    !.trace = Append(@, Threw("sf_read"))], par.figs)
       ELSE WorkerDoes(k, [WRan(w, "sf_read", "sf_mean") EXCEPT
                             !.raw = SfReadRaw(w.file), !.sr = SfReadSr(w.file)], par.figs)

\* line 24
WSfMean(k) ==
  LET w == par.w[k] IN
  /\ w.pc = "sf_mean"
  /\ IF w.file.sf = "mean_raises"
       THEN WorkerDoes(k, [w EXCEPT !.pc = AfterSoundfile(TRUE),
                                    !.trace = Append(@, Threw("sf_mean"))], par.figs)
       ELSE WorkerDoes(k, [WRan(w, "sf_mean", AfterSoundfile(FALSE)) EXCEPT
                             !.data = SfMean(w.raw)], par.figs)

\* lines 27-28
WWavRead(k) ==
  LET w == par.w[k] IN
  /\ w.pc = "wav_read"
  /\ IF w.file.wav = "raises"
       THEN WorkerDoes(k, WDecodeFailed(w, "wav_read"), par.figs)
       ELSE WorkerDoes(k, [WRan(w, "wav_read", "wav_norm") EXCEPT
                             !.raw = WavReadRaw(w.file),
                             !.sr = WavReadSr(w.file)], par.figs)

\* lines 29-33
WWavNorm(k) ==
  LET w == par.w[k] IN
  /\ w.pc = "wav_norm"
  /\ IF WavNormRaises(WavMono(w.raw))
       THEN WorkerDoes(k, WDecodeFailed(w, "wav_norm"), par.figs)
       ELSE WorkerDoes(k, [WRan(w, "wav_norm", "resample") EXCEPT
                             !.raw = WavMono(w.raw),
                             !.data = WavNorm(WavMono(w.raw))], par.figs)

\* lines 39-42
WResample(k) ==
  LET w == par.w[k] IN
  /\ w.pc = "resample"
  /\ IF NeedsResample(w.sr.val)
       THEN WorkerDoes(k, [WRan(w, "resample", "stft") EXCEPT
                             !.data.num = Decimate(w.data.num, ResampleStep(w.sr.val)),
                             !.sr.val = ResampleRate(w.sr.val, ResampleStep(w.sr.val))],
                       par.figs)
       ELSE WorkerDoes(k, WRan(w, "resample", "stft"), par.figs)

\* lines 44-45
WStft(k) ==
  LET w == par.w[k]
      nperseg == Nperseg(Len(w.data.num))
  IN
  /\ w.pc = "stft"
  /\ IF SgRaises(nperseg)
       THEN WorkerDoes(k, WRaised(w, "stft"), par.figs)
       ELSE WorkerDoes(k, [WRan(w, "stft", "normalize") EXCEPT
                             !.sg = Spectrogram(w.data, w.sr.val, nperseg, Noverlap(nperseg))],
                       par.figs)

\* lines 46-48
WNormalize(k) ==
  LET w == par.w[k] IN
  /\ w.pc = "normalize"
  /\ WorkerDoes(k, [WRan(w, "normalize", "fignum") EXCEPT !.sg = Normalized(w.sg)], par.figs)

\* line 50, plt.figure(): the figure number is taken from the registry ...
WFigNum(k) ==
  LET w == par.w[k] IN
  /\ w.pc = "fignum"
  /\ WorkerDoes(k, [w EXCEPT !.pc = "figure", !.num = NewFigNum(par.figs)], par.figs)

\* ... and the new figure is registered under it, becoming the current figure
WFigure(k) ==
  LET w == par.w[k] IN
  /\ w.pc = "figure"
  /\ WorkerDoes(k, [w EXCEPT !.pc = "draw", !.fig = BlankFigure(w.num, cmap)],
                Register(par.figs, w.num, k))

\* lines 51-60: the call draws on the figure its local holds
WDraw(k) ==
  LET w == par.w[k] IN
  /\ w.pc = "draw"
  /\ IF w.file.render = "draw_raises"
       THEN WorkerDoes(k, WRaised(w, "render"), par.figs)
       ELSE WorkerDoes(k, [WRan(w, "render", "save") EXCEPT
                             !.fig = Figure(w.num, w.sg, cmap)], par.figs)

\* lines 62-63
WSave(k) ==
  LET w == par.w[k] IN
  /\ w.pc = "save"
  /\ IF w.file.render = "save_raises"
       THEN WorkerDoes(k, WRaised(w, "save"), par.figs)
       ELSE WorkerDoes(k, [w EXCEPT !.pc = "close", !.out = SaveFig(FigureToSave(k))],
                       par.figs)

\* lines 64-65
WClose(k) ==
  LET w == par.w[k] IN
  /\ w.pc = "close"
  /\ WorkerDoes(k, WRan(w, "save", "returned"), CloseFig(par.figs, k))

NextPar ==
  \E k \in 1..MaxWorkers :
    \/ WSfRead(k) \/ WSfMean(k) \/ WWavRead(k) \/ WWavNorm(k)
    \/ WResample(k) \/ WStft(k) \/ WNormalize(k)
    \/ WFigNum(k) \/ WFigure(k) \/ WDraw(k) \/ WSave(k) \/ WClose(k)

SpecPar == InitPar /\ [][NextPar]_vars

----------------------------------------------------------------------------
(* The colour mapping of lines 48-54 on its own: the percentile bounds of  *)
(* a small dB matrix, then Normalize and _CROW_CMAP applied to each cell   *)
(* as pcolormesh does.  Bounds are kept in hundredths of a dB, because      *)
(* np.percentile interpolates between neighbouring cells.                   *)

MaxCells == 3

\* LinearSegmentedColormap.from_list(name, colors): N = 256 table entries
LutSize == 256

DbValues == {-100, -90, -60, -30, 0}

\* the cells in ascending order
SortedCells(c) ==
  CHOOSE s \in [1..Len(c) -> {c[i] : i \in 1..Len(c)}] :
    /\ \A i \in 1..(Len(c) - 1) : s[i] <= s[i + 1]
    /\ \A v \in {c[i] : i \in 1..Len(c)} :
         Cardinality({i \in 1..Len(c) : s[i] = v}) = Cardinality({i \in 1..Len(c) : c[i] = v})

\* np.percentile(a, q), linear method, times 100: the virtual index is
\* q * (n - 1) / 100, its fraction weighs the two neighbouring cells
Percentile100(c, q) ==
  LET s  == SortedCells(c)
      lo == (q * (Len(c) - 1)) \div 100 + 1
      hi == Min(lo + 1, Len(c))
  IN  100 * s[lo] + ((q * (Len(c) - 1)) % 100) * (s[hi] - s[lo])

\* values at or above vmax wrap around to the first table entry
ColorIndexWrapOver(v, vmin, vmax) ==
  IF vmin = vmax THEN 0
  ELSE IF 100 * v < vmin THEN 0
  ELSE IF 100 * v >= vmax THEN 0
  ELSE (LutSize * (100 * v - vmin)) \div (vmax - vmin)

\* Normalize, then Colormap.__call__: x = (v - vmin) / (vmax - vmin), or 0
\* for equal bounds; the table index is int(x * N), with x < 0 sent to the
\* `under` entry (the first) and x >= 1 to the last entry
ColorIndex(v, vmin, vmax) ==
  IF vmin = vmax THEN 0
  ELSE IF 100 * v < vmin THEN 0
  ELSE IF 100 * v >= vmax THEN LutSize - 1
  ELSE (LutSize * (100 * v - vmin)) \div (vmax - vmin)

\* table entries between two neighbouring stops
LutStep(table) == (LutSize - 1) \div (Len(table) - 1)

\* entry i of the table: the gradient at i / (N - 1), a mix of two
\* neighbouring stops with weight w / LutStep on the second
Lut(table, i) ==
  [lo |-> table[i \div LutStep(table) + 1],
   hi |-> table[Min(i \div LutStep(table) + 2, Len(table))],
   w  |-> i % LutStep(table),
   at |-> i]

InitColor ==
  /\ dir = <<>>
  /\ idx = 0
  /\ pc = "percentile"
  /\ sg \in {[kind |-> "Sxx_db", cells |-> c] :
               c \in UNION {[1..n -> DbValues] : n \in 1..MaxCells}}
  /\ raw = None /\ sr = None /\ data = None /\ fig = None
  /\ sono = None
  /\ recordings = <<>>
  /\ openFigs = 0
  /\ printed = <<>>
  /\ trace = <<>>
  /\ calls = <<>>
  /\ cmap = CrowStops
  /\ par = NoWorkers

\* line 48
ColorPercentile ==
  /\ pc = "percentile"
  /\ pc' = "pcolormesh"
  /\ sg' = [kind |-> "bounded", cells |-> sg.cells,
            vmin |-> Percentile100(sg.cells, 5), vmax |-> Percentile100(sg.cells, 99)]
  /\ UNCHANGED <<idx, raw, sr, data, fig, sono, batch, openFigs, printed, trace, calls>>

\* lines 53-54
ColorMap ==
  /\ pc = "pcolormesh"
  /\ pc' = "colored"
  /\ fig' = [kind |-> "mesh",
             colors |-> [i \in 1..Len(sg.cells) |->
                           Lut(cmap, ColorIndex(sg.cells[i], sg.vmin, sg.vmax))]]
  /\ UNCHANGED <<idx, raw, sr, data, sg, sono, batch, openFigs, printed, trace, calls>>

NextColor == ColorPercentile \/ ColorMap

SpecColor == InitColor /\ [][NextColor]_vars

----------------------------------------------------------------------------
(* The Resampler of lines 39-42 on its own, entered with a buffer the first *)
(* decode strategy delivered, over sample rates around the multiples of the *)
(* ceiling.                                                                  *)

MaxRateOffset == 6

RateInputs ==
  {k * RateCeiling + d : k \in 1..4, d \in 0..MaxRateOffset}
  \cup {k * RateCeiling - d : k \in 2..4, d \in 1..MaxRateOffset}
  \cup {8000, 16000, 32000, 48000, 96000, 192000}

RateFiles ==
  { File("wav", 1000, "ok", "ok", "ok", rate, 1, "float32", n, "ramp") :
      rate \in RateInputs, n \in 0..MaxN }

InitRate ==
  /\ dir \in {<<f>> : f \in RateFiles}
  /\ idx = 1
  /\ pc = "resample"
  /\ raw = SfReadRaw(Cur)
  /\ sr = SfReadSr(Cur)
  /\ data = SfMean(SfReadRaw(Cur))
  /\ sg = None /\ fig = None
  /\ sono = None
  /\ recordings = <<>>
  /\ openFigs = 0
  /\ printed = <<>>
  /\ trace = <<Ran("sf_read"), Ran("sf_mean")>>
  /\ calls = <<>>
  /\ cmap = CrowStops
  /\ par = NoWorkers

SpecRate == InitRate /\ [][Resample]_vars

----------------------------------------------------------------------------
(* The SpectrogramComputer of lines 44-45 on its own, entered with a buffer *)
(* at 22050 Hz that passed the Resampler unchanged, over buffer lengths     *)
(* from empty up to beyond the cap of the window length.                    *)

MaxStftN == 130

StftLengths == 0..MaxStftN \cup {4088, 4095, 4096, 4103, 4104, 8192}

StftFiles ==
  { File("wav", 1000, "ok", "ok", "ok", RateCeiling, 1, "float32", n, pat) :
      n \in StftLengths, pat \in {"ramp", "silent"} }

InitStft ==
  /\ dir \in {<<f>> : f \in StftFiles}
  /\ idx = 1
  /\ pc = "stft"
  /\ raw = SfReadRaw(Cur)
  /\ sr = SfReadSr(Cur)
  /\ data = SfMean(SfReadRaw(Cur))
  /\ sg = None /\ fig = None
  /\ sono = None
  /\ recordings = <<>>
  /\ openFigs = 0
  /\ printed = <<>>
  /\ trace = <<Ran("sf_read"), Ran("sf_mean"), Ran("resample")>>
  /\ calls = <<>>
  /\ cmap = CrowStops
  /\ par = NoWorkers

SpecStft == InitStft /\ [][Stft]_vars

----------------------------------------------------------------------------
(* Properties *)

Stages(t) == {t[i].stage : i \in 1..Len(t)}
RanOk(t, stage) == \E i \in 1..Len(t) : t[i] = Ran(stage)
ThrewAt(t, stage) == \E i \in 1..Len(t) : t[i] = Threw(stage)
DecodeStages == {"sf_read", "sf_mean", "wav_read", "wav_norm"}
LaterStages == {"resample", "stft", "normalize", "render", "save"}
AllTraces == {trace} \cup {calls[i].trace : i \in 1..Len(calls)}
AllCalls == {calls[i] : i \in 1..Len(calls)}
AllZero(num) == \A i \in 1..Len(num) : num[i] = 0

\* C1: the sample rate handed to the spectrogram stage never exceeds 22050 Hz
C1_RateWithinCeiling ==
  pc = "stft" => sr.val <= 22050

\* C2: no failure inside sonogram generation aborts the build, and when the
\* page is written every eligible file has its recordings entry
C2_BuildNeverAborts ==
  /\ pc /= "aborted"
  /\ pc = "done" => Len(recordings) = Cardinality({i \in 1..Len(dir) : Eligible(dir[i])})

\* C3: a call whose resampled buffer has fewer than 8 samples returns None
\* and no exception leaves make_sono
C3_ShortInputReturnsNone ==
  \A c \in AllCalls :
    (RanOk(c.trace, "resample") /\ Len(c.data.num) < 8) => c.outcome = None

\* C4: when both decode strategies raised, make_sono returns None, nothing
\* propagates and no later stage runs for that input
BothStrategiesFailed(t) ==
  /\ ThrewAt(t, "sf_read") \/ ThrewAt(t, "sf_mean")
  /\ ThrewAt(t, "wav_read") \/ ThrewAt(t, "wav_norm")

C4_DecodeFailureReturnsNone ==
  /\ BothStrategiesFailed(trace) => pc \notin LaterStages \cup {"aborted"}
  /\ \A c \in AllCalls :
       BothStrategiesFailed(c.trace) =>
         /\ c.outcome = None
         /\ Stages(c.trace) \subseteq DecodeStages

C4_Witness ==
  \E c \in AllCalls : BothStrategiesFailed(c.trace) /\ c.outcome = None /\ pc = "append"

\* C5: a failure of the rasterize / PNG-encode stage makes make_sono return
\* None; it never raises into the batch loop
C5_RenderFailureReturnsNone ==
  \A c \in AllCalls :
    (ThrewAt(c.trace, "render") \/ ThrewAt(c.trace, "save")) => c.outcome = None

\* C6: an all-zero buffer of at least 8 samples after resampling, on a
\* working figure backend, runs through every stage and yields an artifact;
\* the coinciding percentile bounds are handled without a division
SilentLongEnough(c) ==
  /\ RanOk(c.trace, "resample")
  /\ Len(c.data.num) >= 8
  /\ AllZero(c.data.num)
  /\ c.file.render = "ok"

C6_SilenceYieldsArtifact ==
  /\ pc = "aborted" =>
       ~(/\ data /= None
         /\ RanOk(trace, "resample")
         /\ Len(data.num) >= 8 /\ AllZero(data.num)
         /\ Cur.render = "ok")
  /\ \A c \in AllCalls :
       SilentLongEnough(c) =>
         /\ c.outcome.kind = "b64"
         /\ c.outcome.vmin = c.outcome.vmax
         /\ c.outcome.norm = "fill0"
         /\ \A st \in LaterStages : RanOk(c.trace, st)
         /\ \A i \in 1..Len(c.trace) :
              c.trace[i].stage \in LaterStages => c.trace[i].ok

C6_Witness ==
  \E c \in AllCalls :
    /\ SilentLongEnough(c)
    /\ c.outcome.kind = "b64"
    /\ c.outcome.vmin = c.outcome.vmax

\* C7: soundfile is tried first, the WAV reader only after soundfile raised,
\* and when soundfile succeeds its buffer is the one used downstream
C7_DecodeOrder ==
  /\ \A t \in AllTraces :
       /\ t /= <<>> => t[1].stage = "sf_read"
       /\ \A i \in 1..Len(t) :
            t[i].stage = "wav_read" =>
              /\ i > 1
              /\ t[i - 1] \in {Threw("sf_read"), Threw("sf_mean")}
       /\ RanOk(t, "sf_mean") => Stages(t) \cap {"wav_read", "wav_norm"} = {}
  /\ (pc = "resample" /\ RanOk(trace, "sf_mean")) =>
       /\ data.by = "sf" /\ sr.by = "sf"
       /\ Len(data.num) = Cur.n /\ sr.val = Cur.sr

C7_Witness ==
  /\ pc = "resample"
  /\ RanOk(trace, "sf_mean")
  /\ data.by = "sf"

C7_WitnessFallback ==
  /\ pc = "resample"
  /\ ThrewAt(trace, "sf_read")
  /\ data.by = "wav"

\* C8: the rows handed to the rasterizer are exactly the rows of the
\* full-band STFT whose frequency k * fs / 1024 is at most 8000 Hz
RowsWithinCeiling(rows, rate) ==
  /\ rows \subseteq 0..512
  /\ \A k \in 0..512 : (k \in rows) <=> (k * rate <= 8000 * 1024)

C8_FrequencyMask ==
  /\ (sg /= None /\ sg.kind = "Sxx_db") => RowsWithinCeiling(sg.rows, sr.val)
  /\ fig /= None => RowsWithinCeiling(fig.rows, sr.val)
  /\ \A c \in AllCalls :
       c.outcome.kind = "b64" => RowsWithinCeiling(c.outcome.rows, c.sr.val)

C8_Witness ==
  \E c \in AllCalls :
    /\ c.outcome.kind = "b64"
    /\ c.sr.val = 16000
    /\ 512 \in c.outcome.rows

C8_WitnessDiscard ==
  \E c \in AllCalls :
    /\ c.outcome.kind = "b64"
    /\ 371 \in c.outcome.rows
    /\ 372 \notin c.outcome.rows

C10_BufferFromOneStrategy ==
  pc \in LaterStages =>
    /\ data.by = sr.by
    /\ data.by = "sf" => RanOk(trace, "sf_mean")
    /\ data.by = "wav" => RanOk(trace, "wav_read") /\ RanOk(trace, "wav_norm")

C10_Witness ==
  /\ pc = "resample"
  /\ ThrewAt(trace, "sf_mean")
  /\ data.by = "wav" /\ sr.by = "wav"

\* C11: a file for which make_sono returned None is still appended, with its
\* audio and with sono = None, the "(no sono)" line is printed for it, and
\* the loop goes on with the following files
Count(seq, x) == Cardinality({i \in 1..Len(seq) : seq[i] = x})

C11_NoneStillRecorded ==
  /\ \A i \in 1..Len(calls) :
       calls[i].outcome = None =>
         /\ pc /= "aborted" \/ i < Len(calls)
         /\ i <= Len(recordings) \/ (i = Len(calls) /\ pc = "append")
         /\ i <= Len(recordings) =>
              /\ recordings[i].sono = None
              /\ recordings[i].audio = calls[i].file
              /\ dir[recordings[i].file] = calls[i].file
  /\ Count(printed, "ok (no sono)")
       = Cardinality({i \in 1..Len(recordings) : recordings[i].sono = None})
  /\ (pc = "loop" /\ idx < Len(dir)) => ENABLED (SkipExt \/ SkipSize \/ Call)

C11_Witness ==
  /\ Len(calls) = 2
  /\ calls[1].outcome = None
  /\ recordings[1].sono = None
  /\ Len(recordings) = 2
  /\ recordings[2].sono /= None

\* C13: the power-to-dB mapping is monotone, also across the 1e-10 floor:
\* p1 <= p2 implies dB(p1) <= dB(p2)
C13_DbMonotone ==
  pc = "log10_done" =>
    (sg.power[1] <= sg.power[2] => sg.cells[1] <= sg.cells[2])

C13_Witness ==
  /\ pc = "log10_done"
  /\ sg.power[1] < 100 /\ sg.power[2] > 100
  /\ sg.cells[1] = -100 /\ sg.cells[2] > -100

\* C14: integer PCM samples returned by a decode strategy reach the
\* Resampler normalized to [-1, 1]
C14_IntegerPcmNormalized ==
  (pc = "resample" /\ data.by = "wav" /\ Cur.dtype = "int16") =>
    \A i \in 1..Len(data.num) :
      -data.den <= data.num[i] /\ data.num[i] <= data.den

\* C15: a multi-channel file that the winning strategy read is averaged to
\* mono and yields a buffer, not a decode failure
C15_MultiChannelYieldsBuffer ==
  /\ (pc = "resample" /\ Cur.nch = 2) =>
       \A i \in 1..Len(data.num) :
         /\ data.num[i] = Pcm(Cur.pat, i, 1) + Pcm(Cur.pat, i, 2)
         /\ data.den % 2 = 0
  /\ \A c \in AllCalls :
       (c.file.nch = 2 /\ c.file.n >= 1 /\ RanOk(c.trace, "wav_read")) =>
         ~ThrewAt(c.trace, "wav_norm")

\* C16: every buffer that enters the Resampler has at least one sample and
\* a positive sample rate
C16_BufferNonEmpty ==
  pc \in {"resample", "stft"} => (Len(data.num) >= 1 /\ sr.val > 0)

\* C17: above 22050 Hz the Resampler takes step = floor(sr / 22050), keeps
\* exactly the samples at indices 0, step, 2*step, ... in order, and sets
\* the rate to floor(sr / step)
C17_Decimation ==
  [][ (pc = "resample" /\ sr.val > 22050) =>
        LET step == sr.val \div 22050 IN
          /\ sr'.val = sr.val \div step
          /\ Len(data'.num) = (Len(data.num) + step - 1) \div step
          /\ \A j \in 1..Len(data'.num) : data'.num[j] = data.num[(j - 1) * step + 1]
          /\ data'.den = data.den ]_vars

C17_Witness ==
  /\ pc = "stft"
  /\ Cur.sr = 96000 /\ Cur.pat = "ramp" /\ Cur.n = MaxN
  /\ sr.val = 24000
  /\ Len(data.num) = (MaxN + 3) \div 4

\* C18: at or below 22050 Hz the Resampler changes neither the samples nor
\* the rate
C18_PassThrough ==
  [][ (pc = "resample" /\ sr.val <= 22050) => (data' = data /\ sr' = sr) ]_vars

C18_Witness ==
  /\ pc = "stft"
  /\ Cur.sr = 22050 /\ Cur.pat = "ramp" /\ Cur.n >= 8
  /\ sr.val = 22050
  /\ Len(data.num) = Cur.n

\* C19: the STFT is called on the resampled buffer of N samples with
\* nperseg = min(512, N div 8), noverlap = (nperseg * 3) div 4, nfft = 1024
C19_StftParameters ==
  /\ (sg /= None /\ sg.kind \in {"Sxx", "Sxx_db"}) =>
       LET N == Len(data.num) IN
         /\ RanOk(trace, "resample")
         /\ sg.of[1] = data.num
         /\ sg.of[3] = sr.val
         /\ sg.of[4] = (IF N \div 8 < 512 THEN N \div 8 ELSE 512)
         /\ sg.of[5] = (sg.of[4] * 3) \div 4
         /\ sg.of[6] = 1024
  /\ ThrewAt(trace, "stft") => Len(data.num) \div 8 = 0

C19_Witness ==
  /\ sg /= None /\ sg.kind = "Sxx"
  /\ Len(data.num) = 4104
  /\ sg.of[4] = 512 /\ sg.of[5] = 384

\* C20 (as claimed): coinciding percentile bounds are clamped apart, so the
\* range handed to the colour mapping has vmax > vmin
C20_BoundsClamped ==
  (fig /= None /\ sg.vmin = sg.vmax) => fig.vmax.val > fig.vmin.val

\* C20 (amended): coinciding percentile bounds are handed on unchanged, and
\* the colour mapping fills 0 for them instead of dividing
C20_EqualBoundsFillZero ==
  /\ (fig /= None /\ sg.vmin = sg.vmax) =>
       /\ fig.vmin = sg.vmin /\ fig.vmax = sg.vmax
       /\ fig.norm = "fill0"
  /\ \A c \in AllCalls :
       (c.outcome.kind = "b64" /\ c.outcome.vmin = c.outcome.vmax) =>
         c.outcome.norm = "fill0"

C20_Witness ==
  /\ fig /= None
  /\ sg.vmin = sg.vmax
  /\ fig.vmin = fig.vmax
  /\ fig.norm = "fill0"

\* what make_sono gives for file f when no other call runs (lines 19-65)
SoloDecoded(f) ==
  IF f.sf = "ok"
    THEN [ok |-> TRUE, data |-> SfMean(SfReadRaw(f)), sr |-> SfReadSr(f)]
  ELSE IF f.wav = "raises" \/ WavNormRaises(WavMono(WavReadRaw(f)))
    THEN [ok |-> FALSE]
  ELSE [ok |-> TRUE, data |-> WavNorm(WavMono(WavReadRaw(f))), sr |-> WavReadSr(f)]

SoloResampled(d) ==
  IF NeedsResample(d.sr.val)
    THEN [d EXCEPT !.data.num = Decimate(d.data.num, ResampleStep(d.sr.val)),
                   !.sr.val = ResampleRate(d.sr.val, ResampleStep(d.sr.val))]
    ELSE d

SoloOutcome(f) ==
  LET d == SoloDecoded(f) IN
  IF ~d.ok THEN None
  ELSE LET r == SoloResampled(d)
           nperseg == Nperseg(Len(r.data.num))
       IN  IF SgRaises(nperseg) THEN Raised("stft")
           ELSE IF f.render = "draw_raises" THEN Raised("render")
           ELSE IF f.render = "save_raises" THEN Raised("save")
           ELSE SaveFig(Figure(1, Normalized(Spectrogram(r.data, r.sr.val, nperseg,
                                                          Noverlap(nperseg))), CrowStops))

WorkerDone(k) == par.w[k].pc \in {"close", "returned", "raised"}

FirstStop(c) == c.lo = "#07090a" /\ c.w = 0
LastStop(c) == c.lo = "#f0a832" /\ c.hi = "#f0a832" /\ c.w = 0
StopNumber(col) == CHOOSE s \in 1..6 : CrowStops[s] = col
GradientPos(c) == 51 * (StopNumber(c.lo) - 1) + c.w

\* C21 (as claimed): every cell at or below vmin gets the first stop, every
\* cell at or above vmax the last stop, and a cell in between the gradient's
\* colour at exactly (dB - vmin) / (vmax - vmin)
C21_LinearBetweenBounds ==
  pc = "colored" =>
    \A i \in 1..Len(sg.cells) :
      LET v == 100 * sg.cells[i]
          c == fig.colors[i]
      IN  /\ v <= sg.vmin => FirstStop(c)
          /\ v >= sg.vmax => LastStop(c)
          /\ (sg.vmin < v /\ v < sg.vmax) =>
               GradientPos(c) * (sg.vmax - sg.vmin) = 255 * (v - sg.vmin)

\* C21 (amended): for vmin < vmax a cell at or below vmin gets the first
\* stop, a cell at or above vmax the last stop, and a cell in between entry
\* floor(256 * (dB - vmin) / (vmax - vmin)) of the 256-entry table sampled
\* from the linear gradient; for vmin = vmax every cell gets the first stop
C21_TableLookupBetweenBounds ==
  pc = "colored" =>
    \A i \in 1..Len(sg.cells) :
      LET v == 100 * sg.cells[i]
          c == fig.colors[i]
      IN  IF sg.vmin = sg.vmax THEN FirstStop(c)
          ELSE /\ sg.vmin < sg.vmax
               /\ v <= sg.vmin => FirstStop(c)
               /\ v >= sg.vmax => LastStop(c)
               /\ (sg.vmin < v /\ v < sg.vmax) =>
                    /\ GradientPos(c) = (256 * (v - sg.vmin)) \div (sg.vmax - sg.vmin)
                    /\ c.hi = CrowStops[StopNumber(c.lo) + 1]
                    /\ c.w < 51

\* one cell below vmin, one above vmax, one in between on a mixed colour
C21_Witness ==
  /\ pc = "colored"
  /\ Len(sg.cells) = 3
  /\ \E i, j, k \in 1..3 :
       /\ 100 * sg.cells[i] < sg.vmin /\ FirstStop(fig.colors[i])
       /\ 100 * sg.cells[k] > sg.vmax /\ LastStop(fig.colors[k])
       /\ sg.vmin < 100 * sg.cells[j] /\ 100 * sg.cells[j] < sg.vmax
       /\ fig.colors[j].w > 0

\* all cells equal: the bounds coincide and the cells get the first stop
C21_WitnessEqualBounds ==
  /\ pc = "colored"
  /\ sg.vmin = sg.vmax
  /\ Len(sg.cells) = 3
  /\ FirstStop(fig.colors[1])

\* C22: for every power value p >= 0, zero included, the dB value is the
\* whole-decade value of 10 * log10(max(p, 1e-10)): it is -100 up to the
\* floor and never below -100 (p counted in units of 1e-12, dB + 120 = 10 * e
\* with 10^e <= max(p, 100) < 10^(e + 1))
C22_DbFiniteAboveFloor ==
  pc = "log10_done" =>
    \A i \in 1..2 :
      LET p  == sg.power[i]
          dB == sg.cells[i]
          e  == (dB + 120) \div 10
          m  == IF p >= 100 THEN p ELSE 100
      IN  /\ p >= 0
          /\ dB >= -100
          /\ p <= 100 => dB = -100
          /\ (dB + 120) % 10 = 0
          /\ 10^e <= m /\ m < 10^(e + 1)

\* an exact-zero bin next to a bin at 1e-12, both converted
C22_Witness ==
  /\ pc = "log10_done"
  /\ sg.power[1] = 0 /\ sg.cells[1] = -100
  /\ sg.power[2] = 1 /\ sg.cells[2] = -100

\* position of a stage in the pipeline: decode, resample, STFT, mask and dB
\* normalization, rasterize, encode
StageRank(stage) ==
  CASE stage \in DecodeStages -> 1
    [] stage = "resample"     -> 2
    [] stage = "stft"         -> 3
    [] stage = "normalize"    -> 4
    [] stage = "render"       -> 5
    [] stage = "save"         -> 6

InPipelineOrder(t) ==
  \A i, j \in 1..Len(t) :
    i < j => /\ StageRank(t[i].stage) <= StageRank(t[j].stage)
             /\ t[j].stage \in LaterStages => StageRank(t[i].stage) < StageRank(t[j].stage)

\* C23: the stages of every run execute in pipeline order, a base64 string is
\* returned only after all of them completed, on the previous stage's output,
\* and every run that does not return a base64 string ends with None
C23_StrictlyLinear ==
  /\ \A t \in AllTraces : InPipelineOrder(t)
  /\ \A c \in AllCalls :
       IF c.outcome.kind = "b64"
         THEN /\ \A st \in LaterStages : RanOk(c.trace, st)
              /\ c.outcome.of[1] = c.data.num
              /\ c.outcome.of[3] = c.sr.val
         ELSE c.outcome = None

InCall == pc \in DecodeStages \cup LaterStages

EligibleUpTo(n) == Cardinality({i \in 1..n : Eligible(dir[i])})

\* C24: no stage of a make_sono call is entered twice, and when the script
\* has ended make_sono has been called exactly once for every eligible file
\* of the directory, whatever the calls resulted in
C24_NothingRetried ==
  /\ \A t \in AllTraces :
       \A i, j \in 1..Len(t) : i < j => t[i].stage /= t[j].stage
  /\ Len(calls) + (IF InCall THEN 1 ELSE 0) = EligibleUpTo(idx)
  /\ pc \in {"done", "aborted"} => Len(calls) = EligibleUpTo(Len(dir))

\* C25 (as claimed): a rate above 22050 leaves the Resampler at least 22050
\* and below 44100, and at 22050 exactly when it was a multiple of 22050
C25_RateAfterDecimation ==
  (pc = "stft" /\ Cur.sr > 22050) =>
    /\ sr.val >= 22050
    /\ sr.val < 44100
    /\ sr.val = 22050 <=> Cur.sr % 22050 = 0

\* C25 (amended): a rate above 22050 leaves the Resampler at least 22050 and
\* below 44100, and at 22050 exactly when its remainder modulo 22050 is
\* smaller than the step floor(sr / 22050)
C25_RateAfterDecimationRemainder ==
  (pc = "stft" /\ Cur.sr > 22050) =>
    /\ sr.val >= 22050
    /\ sr.val < 44100
    /\ sr.val = 22050 <=> Cur.sr % 22050 < Cur.sr \div 22050

\* 44101 Hz, no multiple of 22050, is brought to 22050 Hz
C25_Witness ==
  /\ pc = "stft"
  /\ Cur.sr = 44101
  /\ sr.val = 22050

OneStrategySucceeded(t) == RanOk(t, "sf_mean") \/ RanOk(t, "wav_norm")

SkipLines == SelectSeq(printed, LAMBDA l : l \notin {"skip", "ok (no sono)", "ok +sono", "count", "done"})

FailedCalls == SelectSeq(calls, LAMBDA c : BothStrategiesFailed(c.trace))

\* C26: a call in which a decode strategy succeeded ends with a base64 string
\* or with an exception, never with None; and the 'sono skip' warning is
\* printed once for each call in which both strategies raised, and for no
\* other call, naming the error of the fallback strategy
C26_NoneOnlyOnDecodeFailure ==
  /\ \A c \in AllCalls :
       /\ OneStrategySucceeded(c.trace) => c.outcome.kind \in {"b64", "raise"}
       /\ c.outcome = None => BothStrategiesFailed(c.trace)
  /\ Len(SkipLines) = Len(FailedCalls)
  /\ \A i \in 1..Len(SkipLines) :
       /\ SkipLines[i] = "sono skip (wav_read)" <=> ThrewAt(FailedCalls[i].trace, "wav_read")
       /\ SkipLines[i] = "sono skip (wav_norm)" <=> ThrewAt(FailedCalls[i].trace, "wav_norm")

\* soundfile raised, the fallback read the file and failed in its
\* normalisation: one warning with that error, None returned
C26_Witness ==
  /\ pc = "append"
  /\ sono = None
  /\ ThrewAt(trace, "sf_read") /\ ThrewAt(trace, "wav_norm")
  /\ SkipLines = <<"sono skip (wav_norm)">>

\* C27: for a buffer of N >= 8 samples the spectrogram is computed with
\* 1 <= nperseg <= 512 <= nfft = 1024, 0 <= noverlap = (nperseg * 3) div 4 <
\* nperseg and nperseg <= N, so the hop is at least 1 and there are at least
\* 8 complete windows, floor((N - noverlap) / (nperseg - noverlap)) of them
C27_StftAdmissible ==
  (pc /= "stft" /\ Len(data.num) >= 8) =>
    /\ sg /= None /\ sg.kind = "Sxx"
    /\ LET N        == Len(data.num)
           nperseg  == sg.of[4]
           noverlap == sg.of[5]
           nfft     == sg.of[6]
       IN  /\ 1 <= nperseg /\ nperseg <= 512 /\ 512 <= nfft /\ nfft = 1024
           /\ 0 <= noverlap /\ noverlap = (nperseg * 3) \div 4 /\ noverlap < nperseg
           /\ nperseg <= N
           /\ nperseg - noverlap >= 1
           /\ sg.cols = (N - noverlap) \div (nperseg - noverlap)
           /\ sg.cols >= 8

\* the shortest admissible buffer: 8 samples, windows of one sample, 8 windows
C27_Witness ==
  /\ sg /= None /\ sg.kind = "Sxx"
  /\ Len(data.num) = 8
  /\ sg.of[4] = 1 /\ sg.of[5] = 0
  /\ sg.cols = 8

\* a buffer beyond the cap: windows of 512 samples, hop 128
C27_WitnessCapped ==
  /\ sg /= None /\ sg.kind = "Sxx"
  /\ Len(data.num) = 8192
  /\ sg.of[4] = 512 /\ sg.of[5] = 384
  /\ sg.cols = 61

\* C28: the Resampler leaves ceil(N / step) of the N decoded samples (step =
\* floor(sr / 22050) above 22050 Hz), never none of N >= 1; nperseg is taken
\* from that count, so the STFT raises exactly when fewer than 8 samples are
\* left, which for sr >= 44100 happens to decoded buffers of 8 to 7 * step
\* samples
C28_NpersegFromDecimatedCount ==
  RanOk(trace, "resample") =>
    LET N    == Cur.n
        step == IF Cur.sr > 22050 THEN Cur.sr \div 22050 ELSE 1
        kept == Len(data.num)
    IN  /\ kept * step >= N /\ (kept - 1) * step < N
        /\ N >= 1 => kept >= 1
        /\ (sg /= None) => sg.of[4] = (IF kept \div 8 < 512 THEN kept \div 8 ELSE 512)
        /\ pc \notin {"stft"} => (ThrewAt(trace, "stft") <=> kept < 8)
        /\ (Cur.sr >= 44100 /\ N >= 8 /\ N <= 7 * step) => (kept < 8 /\ kept >= 1)

\* 8 decoded samples at 44100 Hz: 4 are left, nperseg = 0, the STFT raises
C28_Witness ==
  /\ pc = "aborted"
  /\ ThrewAt(trace, "stft")
  /\ Cur.n = 8 /\ Cur.sr = 44100
  /\ Len(data.num) = 4

\* C29: whenever no make_sono call is running, whether the last one returned
\* or raised, no figure created by a call is still registered with pyplot
C29_FiguresClosed ==
  ~InCall => openFigs = 0

RecordedFiles == {recordings[k].file : k \in 1..Len(recordings)}

\* C30: make_sono is entered only for files with an audio extension and a
\* size of at most 6 MiB; entries exist only for such files, in directory
\* (sorted file-name) order and with the sono value the call returned; and
\* when the script has ended there is exactly one entry per eligible file
C30_RecordingsMatchEligible ==
  /\ InCall =>
       (Cur.ext \in {"wav", "mp3"} /\ Cur.size <= 6 * 1024 * 1024)
  /\ \A c \in AllCalls :
       (c.file.ext \in {"wav", "mp3"} /\ c.file.size <= 6 * 1024 * 1024)
  /\ \A k \in 1..Len(recordings) :
       /\ recordings[k].file \in 1..Len(dir)
       /\ dir[recordings[k].file].ext \in {"wav", "mp3"}
       /\ dir[recordings[k].file].size <= 6 * 1024 * 1024
       /\ k > 1 => recordings[k - 1].file < recordings[k].file
       /\ recordings[k].sono = calls[k].outcome
       /\ recordings[k].audio = calls[k].file
  /\ pc \in {"done", "aborted"} =>
       RecordedFiles = {i \in 1..Len(dir) : Eligible(dir[i])}

====
